---- MODULE Spec2Model ----
(***************************************************************************)
(* Foodify storefront: the Redux cart and product slices, the views that   *)
(* dispatch to them, and the checkout page with its Stripe payment form.   *)
(*                                                                         *)
(* Money is kept in integer cents.  A JavaScript `undefined` field is the  *)
(* string Undefined (or the number NaN for a price).                       *)
(***************************************************************************)
EXTENDS Integers, Sequences, FiniteSets, TLC

\* ------------------------------------------------------------------
\* Bounds
\* ------------------------------------------------------------------
MaxQty == 3
MaxAttempts == 2
MaxLogins == 2

\* ------------------------------------------------------------------
\* Values
\* ------------------------------------------------------------------
Undefined == "undefined"
NaN == 0 - 1
Null == "null"

Ids == {"a", "b"}

\* GET /api/menu: the documents the menu API answers with.  They carry the
\* database identifier in `_id` and no `id` field.
ServerItem(k) ==
    [_id |-> k, id |-> Undefined,
     name |-> IF k = "a" THEN "Pizza" ELSE "Burger",
     category |-> IF k = "a" THEN "pizza" ELSE "burger",
     price |-> IF k = "a" THEN 1000 ELSE 550,
     image |-> IF k = "a" THEN "uploads/a.png" ELSE "http://cdn/b.png"]

MenuResponses == { <<>>, <<ServerItem("a")>>, <<ServerItem("a"), ServerItem("b")>> }

ToUpperCase(s) ==
    CASE s = "pizza" -> "PIZZA"
      [] s = "burger" -> "BURGER"
      [] OTHER -> s

getImageUrl(imagePath) ==
    CASE imagePath = Undefined -> "/placeholder.svg"
      [] imagePath = "http://cdn/b.png" -> imagePath
      [] OTHER -> "API_BASE_URL/uploads/a.png"

\* OurHomeMenu: formattedData = data.data.map(item => ({ id: item._id, ... }))
FormatMenuItem(item) ==
    [_id |-> Undefined, id |-> item._id,
     name |-> IF item.name = Undefined THEN "Unnamed Item" ELSE item.name,
     category |-> IF item.category = Undefined THEN "OTHER"
                  ELSE ToUpperCase(item.category),
     price |-> IF item.price = NaN THEN 0 ELSE item.price,
     image |-> getImageUrl(item.image)]

\* SpecialOffer: normalized = data.data.map(item => ({ ...item, price: Number }))
NormalizeOffer(item) ==
    [item EXCEPT !.price = IF item.price = NaN THEN 0 ELSE item.price]

MapSeq(F(_), s) == [i \in 1..Len(s) |-> F(s[i])]

\* ------------------------------------------------------------------
\* State
\* ------------------------------------------------------------------
VARIABLES
    products,       \* state.products.products
    cart,           \* state.cart.cart
    lastOp,         \* the last cart action dispatched, and the cart before it
    addRun,         \* consecutive add(X) calls since a cart without X
    page,           \* the route shown: "shop" (home, menu, cart) or "checkout"
    localStorage,   \* token / user / orders keys of the browser storage
    formData,       \* Checkout: the required form fields
    paymentMethod,  \* Checkout: "", "cod" or "online"
    loading,        \* Checkout: loading flag
    stripeLoading,  \* CheckoutForm: loading flag
    attempts,       \* one record per press of the submit or pay control
    isLoggedIn,     \* Navbar: isLoggedIn of the mounted navigation bar
    isLoginOpen,    \* Navbar: isLoginOpen
    loginForm,      \* LoginModal: formData (email, password)
    loginError,     \* LoginModal: error
    loginLoading,   \* LoginModal: loading
    logins,         \* one record per submission of the login form
    ordersView,     \* OrderHistory: loading, orders, and its pending fetch
    contactStatus   \* ContactPage: status

vars == <<products, cart, lastOp, addRun, page, localStorage, formData,
          paymentMethod, loading, stripeLoading, attempts, isLoggedIn,
          isLoginOpen, loginForm, loginError, loginLoading, logins,
          ordersView, contactStatus>>

cartVars == <<products, cart, lastOp, addRun>>
checkoutVars == <<page, localStorage, formData, paymentMethod, loading,
                  stripeLoading, attempts>>
sessionVars == <<isLoggedIn, isLoginOpen, loginForm, loginError, loginLoading,
                 logins>>
pageVars == <<ordersView, contactStatus>>

\* ------------------------------------------------------------------
\* cartSlice reducers
\* ------------------------------------------------------------------
\* state.cart.find(pred): index of the first match, 0 when there is none
FindIndex(c, key) ==
    IF \E i \in 1..Len(c) : c[i]._id = key
    THEN CHOOSE i \in 1..Len(c) :
            /\ c[i]._id = key
            /\ \A j \in 1..(i - 1) : c[j]._id # key
    ELSE 0

FilterOut(c, key) == SelectSeq(c, LAMBDA l : l._id # key)

Line(payload) ==
    [_id |-> payload._id, id |-> payload.id, name |-> payload.name,
     price |-> payload.price, image |-> payload.image, quantity |-> 1]

addToCart(c, payload) ==
    LET i == FindIndex(c, payload._id) IN
    IF i # 0
    THEN [c EXCEPT ![i].quantity = c[i].quantity + 1]
    ELSE Append(c, Line(payload))

removeFromCart(c, payload) == FilterOut(c, payload)

\* decreaseQuantity with the floor test off by one: `item.quantity > 0`
decreaseQuantityKeepsZero(c, payload) ==
    LET i == FindIndex(c, payload) IN
    IF i # 0
    THEN IF c[i].quantity > 0
         THEN [c EXCEPT ![i].quantity = c[i].quantity - 1]
         ELSE FilterOut(c, payload)
    ELSE c

decreaseQuantity(c, payload) ==
    LET i == FindIndex(c, payload) IN
    IF i # 0
    THEN IF c[i].quantity > 1
         THEN [c EXCEPT ![i].quantity = c[i].quantity - 1]
         ELSE FilterOut(c, payload)
    ELSE c

clearCart(c) == <<>>

\* ------------------------------------------------------------------
\* Helpers over carts
\* ------------------------------------------------------------------
\* The catalog item a payload or a cart line stands for: whichever
\* identifier field it carries.
ItemIdOf(r) == IF r._id # Undefined THEN r._id ELSE r.id

LinesFor(c, x) == { i \in 1..Len(c) : ItemIdOf(c[i]) = x }

\* The bound on quantities, as a guard of the add actions.
CanAdd(c, payload) ==
    LET i == FindIndex(c, payload._id) IN
    i # 0 => c[i].quantity < MaxQty

NoPayload ==
    [_id |-> Undefined, id |-> Undefined, name |-> Undefined, category |-> Undefined,
     price |-> NaN, image |-> Undefined]
NoOp == [type |-> "none", payload |-> NoPayload, itemId |-> Undefined,
         view |-> "none", before |-> <<>>]
NoRun == [x |-> Undefined, n |-> 0]

\* ------------------------------------------------------------------
\* Initial state
\* ------------------------------------------------------------------
InitFormData == [firstName |-> "", address |-> "", city |-> ""]
InitStorage == [token |-> Null, user |-> Null, orders |-> Null]
InitLoginForm == [email |-> "", password |-> ""]
\* the two pages while they are not shown
InitOrdersView == [loading |-> FALSE, orders |-> "empty", alert |-> "",
                   pending |-> FALSE]
InitContactStatus == [loading |-> FALSE, message |-> "", error |-> FALSE]

InitCheckoutPart ==
    /\ page = "shop"
    /\ localStorage = InitStorage
    /\ formData = InitFormData
    /\ paymentMethod = ""
    /\ loading = FALSE
    /\ stripeLoading = FALSE
    /\ attempts = <<>>
    /\ isLoggedIn = FALSE
    /\ isLoginOpen = FALSE
    /\ loginForm = InitLoginForm
    /\ loginError = ""
    /\ loginLoading = FALSE
    /\ logins = <<>>
    /\ ordersView = InitOrdersView
    /\ contactStatus = InitContactStatus

Init ==
    /\ products = <<>>
    /\ cart = <<>>
    /\ lastOp = NoOp
    /\ addRun = NoRun
    /\ InitCheckoutPart

\* ------------------------------------------------------------------
\* Catalog fetches
\* ------------------------------------------------------------------
\* setProducts pushing the payload onto what the store holds
setProductsMerging(old, payload) == old \o payload

\* productSlice.setProducts
setProducts(old, payload) == payload

\* SpecialOffer: a successful fetch stores the normalized server documents
SpecialOfferFetch(resp) ==
    /\ page = "shop"
    /\ products' = setProducts(products, MapSeq(NormalizeOffer, resp))
    /\ UNCHANGED <<cart, lastOp, addRun>>
    /\ UNCHANGED checkoutVars
    /\ UNCHANGED sessionVars
    /\ UNCHANGED pageVars

\* OurHomeMenu: a successful fetch stores the formatted items
FetchMenuItems(resp) ==
    /\ page = "shop"
    /\ products' = setProducts(products, MapSeq(FormatMenuItem, resp))
    /\ UNCHANGED <<cart, lastOp, addRun>>
    /\ UNCHANGED checkoutVars
    /\ UNCHANGED sessionVars
    /\ UNCHANGED pageVars

\* ------------------------------------------------------------------
\* Cart dispatches of the views
\* ------------------------------------------------------------------
\* add(X) for a catalog item X is what the menu and offer views dispatch
NextRun(view, c, payload) ==
    LET x == ItemIdOf(payload) IN
    IF view = "cart" THEN NoRun
    ELSE IF addRun.x = x /\ addRun.n > 0
    THEN [x |-> x, n |-> addRun.n + 1]
    ELSE IF LinesFor(c, x) = {} THEN [x |-> x, n |-> 1] ELSE NoRun

DispatchAdd(view, payload) ==
    /\ page = "shop"
    /\ CanAdd(cart, payload)
    /\ cart' = addToCart(cart, payload)
    /\ lastOp' = [type |-> "addToCart", payload |-> payload,
                  itemId |-> Undefined, view |-> view, before |-> cart]
    /\ addRun' = NextRun(view, cart, payload)
    /\ UNCHANGED products
    /\ UNCHANGED checkoutVars
    /\ UNCHANGED sessionVars
    /\ UNCHANGED pageVars

\* OurHomeMenu "ORDER NOW": dispatch(addToCart(item)), item from the store
OurHomeMenuAdd(i) ==
    /\ i \in 1..Len(products)
    /\ DispatchAdd("menu", products[i])

\* SpecialOffer "Add": dispatch(addToCart(product)), product from the store
SpecialOfferAdd(i) ==
    /\ i \in 1..Len(products)
    /\ DispatchAdd("offer", products[i])

PlusPayload(item) ==
    [_id |-> Undefined, id |-> item.id, name |-> Undefined, category |-> Undefined,
     price |-> NaN, image |-> Undefined]

\* CartPage plus: dispatch(addToCart({ id: item.id }))
CartPagePlus(i) ==
    /\ i \in 1..Len(cart)
    /\ DispatchAdd("cart", PlusPayload(cart[i]))

\* CartPage minus: dispatch(decreaseQuantity(item.id))
CartPageMinus(i) ==
    /\ page = "shop"
    /\ i \in 1..Len(cart)
    /\ cart' = decreaseQuantity(cart, cart[i].id)
    /\ lastOp' = [type |-> "decreaseQuantity", payload |-> NoPayload,
                  itemId |-> cart[i].id, view |-> "cart", before |-> cart]
    /\ addRun' = NoRun
    /\ UNCHANGED products
    /\ UNCHANGED checkoutVars
    /\ UNCHANGED sessionVars
    /\ UNCHANGED pageVars

\* CartPage REMOVE: dispatch(removeFromCart(item.id))
CartPageRemove(i) ==
    /\ page = "shop"
    /\ i \in 1..Len(cart)
    /\ cart' = removeFromCart(cart, cart[i].id)
    /\ lastOp' = [type |-> "removeFromCart", payload |-> NoPayload,
                  itemId |-> cart[i].id, view |-> "cart", before |-> cart]
    /\ addRun' = NoRun
    /\ UNCHANGED products
    /\ UNCHANGED checkoutVars
    /\ UNCHANGED sessionVars
    /\ UNCHANGED pageVars

\* clearCart is exported by the slice; no view dispatches it
ClearCart ==
    /\ page = "shop"
    /\ cart' = clearCart(cart)
    /\ lastOp' = [type |-> "clearCart", payload |-> NoPayload,
                  itemId |-> Undefined, view |-> "none", before |-> cart]
    /\ addRun' = NoRun
    /\ UNCHANGED products
    /\ UNCHANGED checkoutVars
    /\ UNCHANGED sessionVars
    /\ UNCHANGED pageVars

NextCart ==
    \/ \E resp \in MenuResponses : SpecialOfferFetch(resp)
    \/ \E resp \in MenuResponses : FetchMenuItems(resp)
    \/ \E i \in 1..2 : OurHomeMenuAdd(i)
    \/ \E i \in 1..2 : SpecialOfferAdd(i)
    \/ \E i \in 1..3 : CartPagePlus(i)
    \/ \E i \in 1..3 : CartPageMinus(i)
    \/ \E i \in 1..3 : CartPageRemove(i)
    \/ ClearCart

SpecCart == Init /\ [][NextCart]_vars

\* ------------------------------------------------------------------
\* addToCart on payloads that carry a quantity
\* ------------------------------------------------------------------
\* a catalog item with a `quantity` property next to its own fields
WithQuantity(item, k) ==
    [_id |-> item._id, id |-> item.id, name |-> item.name,
     category |-> item.category, price |-> item.price, image |-> item.image,
     quantity |-> k]

\* dispatch(addToCart({ ...item, quantity: k }))
AddWithQuantity(x, k) ==
    /\ page = "shop"
    /\ CanAdd(cart, ServerItem(x))
    /\ cart' = addToCart(cart, WithQuantity(NormalizeOffer(ServerItem(x)), k))
    /\ lastOp' = [type |-> "addToCart",
                  payload |-> WithQuantity(NormalizeOffer(ServerItem(x)), k),
                  itemId |-> x, view |-> "quantity", before |-> cart]
    /\ addRun' = NoRun
    /\ UNCHANGED products
    /\ UNCHANGED checkoutVars
    /\ UNCHANGED sessionVars
    /\ UNCHANGED pageVars

\* dispatch(addToCart(item)): the payload has no quantity
AddWithoutQuantity(x) ==
    /\ page = "shop"
    /\ CanAdd(cart, ServerItem(x))
    /\ cart' = addToCart(cart, NormalizeOffer(ServerItem(x)))
    /\ lastOp' = [type |-> "addToCart",
                  payload |-> NormalizeOffer(ServerItem(x)),
                  itemId |-> x, view |-> "none", before |-> cart]
    /\ addRun' = NoRun
    /\ UNCHANGED products
    /\ UNCHANGED checkoutVars
    /\ UNCHANGED sessionVars
    /\ UNCHANGED pageVars

NextAdd ==
    \/ \E x \in Ids : \E k \in 1..MaxQty : AddWithQuantity(x, k)
    \/ \E x \in Ids : AddWithoutQuantity(x)

SpecAdd == Init /\ [][NextAdd]_vars

\* ------------------------------------------------------------------
\* Checkout: derived values
\* ------------------------------------------------------------------
RECURSIVE SumLines(_)
SumLines(items) ==
    IF Len(items) = 0 THEN 0
    ELSE LET rest == SumLines(Tail(items)) IN
         IF rest = NaN \/ Head(items).price = NaN THEN NaN
         ELSE rest + Head(items).price * Head(items).quantity

\* the checkout subtotal with the quantity factor left out
subtotalWithoutQuantity(items) ==
    IF \E i \in 1..Len(items) : items[i].price = NaN THEN NaN
    ELSE SumLines([i \in 1..Len(items) |-> [items[i] EXCEPT !.quantity = 1]])

\* const subtotal = cartItems.reduce((sum, item) => sum + item.price * item.quantity, 0)
\* in cents
subtotal(items) == SumLines(items)

\* const totalPrice = subtotal + subtotal * 0.05, in hundredths of a cent
\* (decimal arithmetic, exact; the code's is binary floating point)
totalPrice(items) ==
    IF subtotal(items) = NaN THEN NaN ELSE subtotal(items) * 105

\* Math.floor in the place of Math.round
IntentAmountTruncating(total) ==
    IF total = NaN THEN NaN ELSE total \div 100

\* Math.round(totalAmount * 100): cents, halves rounded up
IntentAmount(total) ==
    IF total = NaN THEN NaN ELSE (total + 50) \div 100

\* Number(item.price): a number stays itself, undefined becomes NaN
Number(v) == IF v \in Nat THEN v ELSE NaN

\* CartPage: cartItems.reduce((sum, item) => sum + Number(item.price) * item.quantity, 0)
RECURSIVE ReduceTotal(_, _, _)
ReduceTotal(items, i, sum) ==
    IF i > Len(items) THEN sum
    ELSE ReduceTotal(items, i + 1,
             IF sum = NaN \/ Number(items[i].price) = NaN THEN NaN
             ELSE sum + Number(items[i].price) * items[i].quantity)

total(items) == ReduceTotal(items, 1, 0)

\* ------------------------------------------------------------------
\* Checkout: attempts
\* ------------------------------------------------------------------
MsgLogin == "Please log in to place an order."
MsgFields == "Please fill all required fields."
MsgEmpty == "Your cart is empty!"
MsgNoMethod == "Please select a payment method."
MsgUseStripe == "Please complete your Stripe payment to place an order."
MsgOrderOk == "Order placed successfully!"
MsgOrderErr == "Failed to create order"
MsgPayOk == "Payment Successful!"
MsgPayErr == "Payment failed"
MsgPayStatus == "Payment status: unknown"
MsgNoConfirm == "Payment confirmation failed. Please try again."
MsgPaidAndOrdered == "Payment and Order created successfully!"

ValidationMsgs == {MsgLogin, MsgFields, MsgEmpty}

\* The render a handler closes over: the values it reads when it runs later
Snap(fd, items, pm) == [formData |-> fd, cartItems |-> items, paymentMethod |-> pm]
NoSnap == Snap(InitFormData, <<>>, "")

\* createOrder without its `cartItems.length === 0` check
ValidateWithoutCartCheck(token, snap) ==
    IF token = Null THEN MsgLogin
    ELSE IF snap.formData.firstName = "" \/ snap.formData.address = ""
            \/ snap.formData.city = "" THEN MsgFields
    ELSE "ok"

\* createOrder, lines 80..86: the alert of the first failing check, or "ok"
Validate(token, snap) ==
    IF token = Null THEN MsgLogin
    ELSE IF snap.formData.firstName = "" \/ snap.formData.address = ""
            \/ snap.formData.city = "" THEN MsgFields
    ELSE IF Len(snap.cartItems) = 0 THEN MsgEmpty
    ELSE "ok"

IntentCall(snap) ==
    [api |-> "create-payment-intent",
     amount |-> IntentAmount(totalPrice(snap.cartItems)), currency |-> "usd"]

ConfirmCall == [api |-> "confirmCardPayment"]

\* createOrder, lines 90..106: POST /api/orders with orderData
OrderCall(token, snap, paymentId) ==
    [api |-> "orders", token |-> token, form |-> snap.formData,
     items |-> snap.cartItems, totalPrice |-> totalPrice(snap.cartItems),
     paymentMethod |-> snap.paymentMethod, paymentId |-> paymentId]

NewAttempt(kind, snap) ==
    [kind |-> kind, pc |-> "start", snap |-> snap, calls |-> <<>>,
     alerts |-> <<>>, outcome |-> "pending", paid |-> FALSE,
     paymentId |-> Null, orderRecorded |-> FALSE, validated |-> "none",
     intentResult |-> "none", confirmResult |-> "none", orderResult |-> "none",
     live |-> TRUE, stripeLive |-> (kind = "card")]

\* An attempt whose handlers have all returned: what it closed over is gone
Finished(a) ==
    [a EXCEPT !.pc = "done", !.snap = NoSnap, !.live = FALSE, !.stripeLive = FALSE]

\* An attempt that returns with an alert and nothing else
Rejected(a, msg) ==
    Finished([a EXCEPT !.alerts = Append(@, msg), !.outcome = "error"])

\* createOrder up to its first await, on attempt a
CreateOrderStart(a, token, paymentId) ==
    LET v == Validate(token, a.snap) IN
    IF v # "ok"
    THEN Finished([a EXCEPT !.alerts = Append(@, v), !.outcome = "error",
                            !.validated = v])
    ELSE [a EXCEPT !.pc = "order", !.validated = "ok",
                   !.calls = Append(@, OrderCall(token, a.snap, paymentId)),
                   !.snap = NoSnap, !.stripeLive = FALSE]

\* createOrder after the await with the `!res.ok` test inverted
CreateOrderEndInverted(a, r) ==
    IF r \in {"httpError", "throw"}
    THEN Finished([a EXCEPT !.alerts = Append(@, MsgOrderOk),
                            !.outcome = "complete"])
    ELSE Finished([a EXCEPT !.alerts = Append(@, MsgOrderErr),
                            !.outcome = "error"])

\* createOrder after the await, repeating the request when it threw
CreateOrderEndWithRetry(a, r) ==
    IF r \in {"ok", "ok_success_false"}
    THEN Finished([a EXCEPT !.alerts = Append(@, MsgOrderOk),
                            !.outcome = "complete",
                            !.orderRecorded = (r = "ok")])
    ELSE IF r = "throw" /\ Len(a.calls) < 4
    THEN [a EXCEPT !.calls = Append(@, a.calls[Len(a.calls)])]
    ELSE Finished([a EXCEPT !.alerts = Append(@, MsgOrderErr),
                            !.outcome = "error"])

\* createOrder after the await: res.ok, the catch branch, finally
CreateOrderEnd(a, r) ==
    IF r \in {"ok", "ok_success_false"}
    THEN Finished([a EXCEPT !.alerts = Append(@, MsgOrderOk),
                            !.outcome = "complete",
                            !.orderRecorded = (r = "ok")])
    ELSE Finished([a EXCEPT !.alerts = Append(@, MsgOrderErr),
                            !.outcome = "error"])

\* handlePaymentSuccess after `await createOrder(...)`: the unconditional alert
AfterCreateOrder(a) ==
    IF a.pc = "done" /\ a.kind = "card"
    THEN [a EXCEPT !.alerts = Append(@, MsgPaidAndOrdered)]
    ELSE a

\* handlePaymentSuccess without its `!paymentIntent?.id` guard
HandlePaymentSuccessWithoutIdCheck(a, token, id) ==
    AfterCreateOrder(CreateOrderStart(a, token, id))

\* handlePaymentSuccess(paymentIntent) up to the first await
HandlePaymentSuccess(a, token, id) ==
    IF id = Null
    THEN Rejected(a, MsgNoConfirm)
    ELSE AfterCreateOrder(CreateOrderStart(a, token, id))

\* ------------------------------------------------------------------
\* Checkout: actions
\* ------------------------------------------------------------------
Unmounted(as) == [k \in 1..Len(as) |-> [as[k] EXCEPT !.live = FALSE, !.stripeLive = FALSE]]

\* A page change mounts a new Navbar (every page renders its own): its
\* effect reads the token once, the login modal starts closed and empty
MountNavbar(storage) ==
    /\ isLoggedIn' = (storage.token # Null)
    /\ isLoginOpen' = FALSE
    /\ loginForm' = InitLoginForm
    /\ loginError' = ""
    /\ loginLoading' = FALSE

MsgPleaseLogin == "Please login to view your orders."
MsgFetchOrdersErr == "Failed to fetch orders"

\* OrderHistory: the mount effect runs fetchOrders up to its await
MountOrders(storage) ==
    IF storage.token = Null
    THEN [loading |-> FALSE, orders |-> "empty", alert |-> MsgPleaseLogin,
          pending |-> FALSE]
    ELSE [loading |-> TRUE, orders |-> "empty", alert |-> "", pending |-> TRUE]

\* the page component of route p is mounted, the one shown before is gone
MountPage(p, storage) ==
    /\ ordersView' = IF p = "orders" THEN MountOrders(storage) ELSE InitOrdersView
    /\ contactStatus' = InitContactStatus

\* the login submissions of a Navbar that is gone keep running
LoginUnmounted(ls) == [k \in 1..Len(ls) |-> [ls[k] EXCEPT !.live = FALSE]]
StripeUnmounted(as) == [k \in 1..Len(as) |-> [as[k] EXCEPT !.stripeLive = FALSE]]

\* <Link to="/checkout">: a fresh Checkout component
NavigateToCheckout ==
    /\ page = "shop"
    /\ page' = "checkout"
    /\ formData' = InitFormData
    /\ paymentMethod' = ""
    /\ loading' = FALSE
    /\ stripeLoading' = FALSE
    /\ UNCHANGED <<localStorage, attempts>>
    /\ MountNavbar(localStorage)
    /\ logins' = LoginUnmounted(logins)
    /\ UNCHANGED pageVars
    /\ UNCHANGED cartVars

\* a Navbar link away from the checkout page: Checkout unmounts, the
\* requests it started stay in flight
NavigateAway ==
    /\ page = "checkout"
    /\ page' = "shop"
    /\ formData' = InitFormData
    /\ paymentMethod' = ""
    /\ loading' = FALSE
    /\ stripeLoading' = FALSE
    /\ attempts' = Unmounted(attempts)
    /\ UNCHANGED localStorage
    /\ MountNavbar(localStorage)
    /\ logins' = LoginUnmounted(logins)
    /\ UNCHANGED pageVars
    /\ UNCHANGED cartVars

handleInputChange(field, value) ==
    /\ page = "checkout"
    /\ formData[field] # value
    /\ formData' = [formData EXCEPT ![field] = value]
    /\ UNCHANGED <<page, localStorage, paymentMethod, loading, stripeLoading, attempts>>
    /\ UNCHANGED cartVars
    /\ UNCHANGED sessionVars
    /\ UNCHANGED pageVars

\* StripeCheckout is rendered only while paymentMethod === "online"
handlePaymentSelect(value) ==
    /\ page = "checkout"
    /\ paymentMethod # value
    /\ paymentMethod' = value
    /\ IF paymentMethod = "online"
       THEN attempts' = StripeUnmounted(attempts) /\ stripeLoading' = FALSE
       ELSE UNCHANGED <<attempts, stripeLoading>>
    /\ UNCHANGED <<page, localStorage, formData, loading>>
    /\ UNCHANGED cartVars
    /\ UNCHANGED sessionVars
    /\ UNCHANGED pageVars

\* Login.handleSubmit, lines 75..76: a successful login stores token and user
LoginStore ==
    /\ localStorage.token = Null
    /\ localStorage' = [localStorage EXCEPT !.token = "tok", !.user = "profile"]
    /\ UNCHANGED <<page, formData, paymentMethod, loading, stripeLoading, attempts>>
    /\ UNCHANGED cartVars
    /\ UNCHANGED sessionVars
    /\ UNCHANGED pageVars

\* localStorage.removeItem(key)
removeItem(storage, key) == [storage EXCEPT ![key] = Null]

\* handleLogout leaving the cached order list in the storage
LogoutKeepingOrders(storage) ==
    removeItem(removeItem(storage, "token"), "user")

\* Navbar.handleLogout, lines 73..75: the three removeItem calls
LogoutStorage(storage) ==
    removeItem(removeItem(removeItem(storage, "token"), "user"), "orders")

\* Navbar.handleLogout: the Logout control is rendered while isLoggedIn; it
\* clears the three keys, resets isLoggedIn and navigates to "/"
handleLogout ==
    /\ isLoggedIn
    /\ localStorage' = LogoutStorage(localStorage)
    /\ isLoggedIn' = FALSE
    /\ page' = "shop"
    /\ formData' = InitFormData
    /\ paymentMethod' = ""
    /\ loading' = FALSE
    /\ stripeLoading' = FALSE
    /\ attempts' = Unmounted(attempts)
    /\ MountPage("shop", localStorage')
    /\ UNCHANGED <<isLoginOpen, loginForm, loginError, loginLoading, logins>>
    /\ UNCHANGED cartVars

\* Checkout.handleSubmit without its `paymentMethod === "online"` return
handleSubmitWithoutOnlineCheck ==
    /\ page = "checkout"
    /\ ~loading
    /\ Len(attempts) < MaxAttempts
    /\ LET a0 == NewAttempt("cod", Snap(formData, cart, paymentMethod))
           a1 == IF paymentMethod = "" THEN Rejected(a0, MsgNoMethod)
                 ELSE CreateOrderStart(a0, localStorage.token, Null)
       IN /\ attempts' = Append(attempts, a1)
          /\ loading' = (a1.pc = "order")
    /\ UNCHANGED <<page, localStorage, formData, paymentMethod, stripeLoading>>
    /\ UNCHANGED cartVars
    /\ UNCHANGED sessionVars
    /\ UNCHANGED pageVars

\* Checkout.handleSubmit: the "Complete Order" button (disabled={loading})
handleSubmit ==
    /\ page = "checkout"
    /\ ~loading
    /\ Len(attempts) < MaxAttempts
    /\ LET a0 == NewAttempt("cod", Snap(formData, cart, paymentMethod))
           a1 == IF paymentMethod = "" THEN Rejected(a0, MsgNoMethod)
                 ELSE IF paymentMethod = "online" THEN Rejected(a0, MsgUseStripe)
                 ELSE CreateOrderStart(a0, localStorage.token, Null)
       IN /\ attempts' = Append(attempts, a1)
          /\ loading' = (a1.pc = "order")
    /\ UNCHANGED <<page, localStorage, formData, paymentMethod, stripeLoading>>
    /\ UNCHANGED cartVars
    /\ UNCHANGED sessionVars
    /\ UNCHANGED pageVars

\* CheckoutForm.handleSubmit up to the first await: the "Pay" button
\* (disabled={!stripe || loading})
StripeSubmit ==
    /\ page = "checkout"
    /\ paymentMethod = "online"
    /\ ~stripeLoading
    /\ Len(attempts) < MaxAttempts
    /\ LET a0 == NewAttempt("card", Snap(formData, cart, paymentMethod))
       IN attempts' = Append(attempts,
              [a0 EXCEPT !.pc = "intent", !.calls = <<IntentCall(a0.snap)>>])
    /\ stripeLoading' = TRUE
    /\ UNCHANGED <<page, localStorage, formData, paymentMethod, loading>>
    /\ UNCHANGED cartVars
    /\ UNCHANGED sessionVars
    /\ UNCHANGED pageVars

IntentResults == {"clientSecret", "noClientSecret", "throw"}

\* CheckoutForm.handleSubmit, lines 430..438: the payment-intent response
IntentResponse(k, r) ==
    /\ k \in 1..Len(attempts)
    /\ attempts[k].pc = "intent"
    /\ LET a == [attempts[k] EXCEPT !.intentResult = r]
           a1 == IF r = "clientSecret"
                 THEN [a EXCEPT !.pc = "confirm", !.calls = Append(@, ConfirmCall)]
                 ELSE Rejected(a, MsgPayErr)
       IN /\ attempts' = [attempts EXCEPT ![k] = a1]
          /\ stripeLoading' = IF a1.pc = "done" /\ a.stripeLive THEN FALSE
                               ELSE stripeLoading
    /\ UNCHANGED <<page, localStorage, formData, paymentMethod, loading>>
    /\ UNCHANGED cartVars
    /\ UNCHANGED sessionVars
    /\ UNCHANGED pageVars

\* result.paymentIntent.id: the processor names every confirmed intent apart
PaymentIntentId(k) ==
    CASE k = 1 -> "pi_1" [] k = 2 -> "pi_2" [] k = 3 -> "pi_3" [] OTHER -> "pi_4"

ConfirmResults == {"error", "succeeded", "succeededNoId", "otherStatus", "throw"}

\* CheckoutForm.handleSubmit, lines 441..457: the confirmation result, and
\* the synchronous part of onPaymentSuccess it triggers
ConfirmResponse(k, r) ==
    /\ k \in 1..Len(attempts)
    /\ attempts[k].pc = "confirm"
    /\ LET a == [attempts[k] EXCEPT !.confirmResult = r]
           a1 == CASE r \in {"error", "throw"} -> Rejected(a, MsgPayErr)
                   [] r = "otherStatus" -> Rejected(a, MsgPayStatus)
                   [] r = "succeeded" ->
                        HandlePaymentSuccess(
                            [a EXCEPT !.alerts = Append(@, MsgPayOk), !.paid = TRUE,
                                      !.paymentId = PaymentIntentId(k)],
                            localStorage.token, PaymentIntentId(k))
                   [] r = "succeededNoId" ->
                        HandlePaymentSuccess(
                            [a EXCEPT !.alerts = Append(@, MsgPayOk), !.paid = TRUE],
                            localStorage.token, Null)
       IN /\ attempts' = [attempts EXCEPT ![k] = a1]
          /\ loading' = IF a1.pc = "order" /\ a.live THEN TRUE ELSE loading
          /\ stripeLoading' = IF a.stripeLive THEN FALSE ELSE stripeLoading
    /\ UNCHANGED <<page, localStorage, formData, paymentMethod>>
    /\ UNCHANGED cartVars
    /\ UNCHANGED sessionVars
    /\ UNCHANGED pageVars

OrderResults == {"ok", "ok_success_false", "httpError", "throw"}

\* createOrder after the await with no `finally` block: the flag is reset
\* only when the request did not throw
OrderResponseWithoutFinally(k, r) ==
    /\ k \in 1..Len(attempts)
    /\ attempts[k].pc = "order"
    /\ attempts' = [attempts EXCEPT ![k] =
            AfterCreateOrder(CreateOrderEnd([attempts[k] EXCEPT !.orderResult = r], r))]
    /\ loading' = IF attempts[k].live /\ r # "throw" THEN FALSE ELSE loading
    /\ UNCHANGED <<page, localStorage, formData, paymentMethod, stripeLoading>>
    /\ UNCHANGED cartVars
    /\ UNCHANGED sessionVars
    /\ UNCHANGED pageVars

\* createOrder, lines 108..122, and what its caller does after the await
OrderResponse(k, r) ==
    /\ k \in 1..Len(attempts)
    /\ attempts[k].pc = "order"
    /\ attempts' = [attempts EXCEPT ![k] =
            AfterCreateOrder(CreateOrderEnd([attempts[k] EXCEPT !.orderResult = r], r))]
    /\ loading' = IF attempts[k].live THEN FALSE ELSE loading
    /\ UNCHANGED <<page, localStorage, formData, paymentMethod, stripeLoading>>
    /\ UNCHANGED cartVars
    /\ UNCHANGED sessionVars
    /\ UNCHANGED pageVars

NextCheckout ==
    \/ NavigateToCheckout
    \/ NavigateAway
    \/ \E f \in {"firstName", "address", "city"} : \E v \in {"", "x"} : handleInputChange(f, v)
    \/ \E v \in {"cod", "online"} : handlePaymentSelect(v)
    \/ LoginStore
    \/ handleLogout
    \/ handleSubmit
    \/ StripeSubmit
    \/ \E k \in 1..MaxAttempts : \E r \in IntentResults : IntentResponse(k, r)
    \/ \E k \in 1..MaxAttempts : \E r \in ConfirmResults : ConfirmResponse(k, r)
    \/ \E k \in 1..MaxAttempts : \E r \in OrderResults : OrderResponse(k, r)

\* Carts the shop pages can leave behind, for the checkout page to start from
LineOf(k, q) == [Line(NormalizeOffer(ServerItem(k))) EXCEPT !.quantity = q]
CheckoutCarts == { <<>>, <<LineOf("a", 2), LineOf("b", 3)>> }

InitCheckout ==
    /\ products = <<>>
    /\ cart \in CheckoutCarts
    /\ lastOp = NoOp
    /\ addRun = NoRun
    /\ InitCheckoutPart

SpecCheckout == InitCheckout /\ [][NextCheckout]_vars

\* One visit of a customer who fills the form in and stays logged in, with
\* a filled cart
NextCheckoutVisit ==
    \/ NavigateToCheckout
    \/ NavigateAway
    \/ \E f \in {"firstName", "address", "city"} : handleInputChange(f, "x")
    \/ \E v \in {"cod", "online"} : handlePaymentSelect(v)
    \/ LoginStore
    \/ handleSubmit
    \/ StripeSubmit
    \/ \E k \in 1..MaxAttempts : \E r \in IntentResults : IntentResponse(k, r)
    \/ \E k \in 1..MaxAttempts : \E r \in ConfirmResults : ConfirmResponse(k, r)
    \/ \E k \in 1..MaxAttempts : \E r \in OrderResults : OrderResponse(k, r)

InitCheckoutVisit ==
    /\ products = <<>>
    /\ cart \in CheckoutCarts \ {<<>>}
    /\ lastOp = NoOp
    /\ addRun = NoRun
    /\ InitCheckoutPart

\* Every request that was sent is answered, or fails in transport: fetch and
\* confirmCardPayment settle their promises, and the awaiting handler resumes
SpecCheckoutFair ==
    /\ InitCheckoutVisit
    /\ [][NextCheckoutVisit]_vars
    /\ WF_vars(\E k \in 1..MaxAttempts : \E r \in IntentResults : IntentResponse(k, r))
    /\ WF_vars(\E k \in 1..MaxAttempts : \E r \in ConfirmResults : ConfirmResponse(k, r))
    /\ WF_vars(\E k \in 1..MaxAttempts : \E r \in OrderResults : OrderResponse(k, r))

\* ------------------------------------------------------------------
\* Session: the login modal and the navigation bar
\* ------------------------------------------------------------------
MsgAllFields == "All fields are required."
MsgLoginFailed == "Login failed"
MsgServerError == "Server error"

\* data.data.token and data.data of the login answer to submission k
TokenOf(k) == IF k = 1 THEN "tok1" ELSE IF k = 2 THEN "tok2" ELSE "tok3"
ProfileOf(k) == IF k = 1 THEN "user1" ELSE IF k = 2 THEN "user2" ELSE "user3"
\* ordersData.data of the orders answer to submission k
OrdersOf(k) == IF k = 1 THEN "orders1" ELSE IF k = 2 THEN "orders2" ELSE "orders3"

\* localStorage.setItem(key, value)
setItem(storage, key, value) == [storage EXCEPT ![key] = value]

NewLogin ==
    [pc |-> "login", live |-> TRUE, outcome |-> "pending",
     loginResult |-> "none", ordersResult |-> "none", error |-> ""]

\* a nav link, or the cart icon: another page, with its own Navbar
NavigateTo(p) ==
    /\ page # "checkout"
    /\ p # page \/ p = "shop"
    /\ page' = p
    /\ MountNavbar(localStorage)
    /\ MountPage(p, localStorage)
    /\ logins' = LoginUnmounted(logins)
    /\ UNCHANGED <<localStorage, formData, paymentMethod, loading, stripeLoading,
                   attempts>>
    /\ UNCHANGED cartVars

\* the Login control, rendered while !isLoggedIn
OpenLogin ==
    /\ ~isLoggedIn
    /\ ~isLoginOpen
    /\ isLoginOpen' = TRUE
    /\ UNCHANGED <<isLoggedIn, loginForm, loginError, loginLoading, logins>>
    /\ UNCHANGED checkoutVars
    /\ UNCHANGED pageVars
    /\ UNCHANGED cartVars

\* onClose: the close button, a click on the overlay, the Escape key
CloseLogin ==
    /\ isLoginOpen
    /\ isLoginOpen' = FALSE
    /\ UNCHANGED <<isLoggedIn, loginForm, loginError, loginLoading, logins>>
    /\ UNCHANGED checkoutVars
    /\ UNCHANGED pageVars
    /\ UNCHANGED cartVars

\* LoginModal.handleChange
handleChange(field, value) ==
    /\ isLoginOpen
    /\ loginForm[field] # value
    /\ loginForm' = [loginForm EXCEPT ![field] = value]
    /\ UNCHANGED <<isLoggedIn, isLoginOpen, loginError, loginLoading, logins>>
    /\ UNCHANGED checkoutVars
    /\ UNCHANGED pageVars
    /\ UNCHANGED cartVars

\* LoginModal.handleSubmit up to its first await (button disabled={loading})
LoginHandleSubmit ==
    /\ isLoginOpen
    /\ ~loginLoading
    /\ Len(logins) < MaxLogins
    /\ IF loginForm.email = "" \/ loginForm.password = ""
       THEN /\ loginError' = MsgAllFields
            /\ logins' = Append(logins,
                   [NewLogin EXCEPT !.pc = "done", !.live = FALSE,
                                    !.outcome = "blocked", !.error = MsgAllFields])
            /\ UNCHANGED loginLoading
       ELSE /\ loginError' = ""
            /\ logins' = Append(logins, NewLogin)
            /\ loginLoading' = TRUE
    /\ UNCHANGED <<isLoggedIn, isLoginOpen, loginForm>>
    /\ UNCHANGED checkoutVars
    /\ UNCHANGED pageVars
    /\ UNCHANGED cartVars

LoginResults == {"ok", "rejected", "throw"}

\* the two setItem calls placed before the `!res.ok` return
LoginStorageIgnoringStatus(storage, k, r) ==
    IF r \in {"ok", "rejected"}
    THEN setItem(setItem(storage, "token", TokenOf(k)), "user", ProfileOf(k))
    ELSE storage

\* LoginModal.handleSubmit, lines 70..77: what the answer leaves in storage
LoginStorage(storage, k, r) ==
    IF r = "ok"
    THEN setItem(setItem(storage, "token", TokenOf(k)), "user", ProfileOf(k))
    ELSE storage

\* LoginModal.handleSubmit, lines 67..77 and the catch / finally blocks: the
\* answer of POST /api/auth/login
LoginResponse(k, r) ==
    /\ k \in 1..Len(logins)
    /\ logins[k].pc = "login"
    /\ localStorage' = LoginStorage(localStorage, k, r)
    /\ IF r = "ok"
       THEN /\ logins' = [logins EXCEPT ![k].pc = "orders", ![k].loginResult = r]
            /\ UNCHANGED <<loginError, loginLoading>>
       ELSE LET msg == IF r = "rejected" THEN MsgLoginFailed ELSE MsgServerError IN
            /\ logins' = [logins EXCEPT ![k].pc = "done", ![k].loginResult = r,
                                        ![k].live = FALSE, ![k].error = msg,
                                        ![k].outcome =
                                            IF r = "rejected" THEN "rejected" ELSE "failed"]
            /\ loginError' = IF logins[k].live THEN msg ELSE loginError
            /\ loginLoading' = IF logins[k].live THEN FALSE ELSE loginLoading
    /\ UNCHANGED <<isLoggedIn, isLoginOpen, loginForm>>
    /\ UNCHANGED <<page, formData, paymentMethod, loading, stripeLoading, attempts>>
    /\ UNCHANGED pageVars
    /\ UNCHANGED cartVars

LoginOrdersResults == {"ok", "notOk", "throw"}

\* an orders answer that is not OK taken as the end of the session
LoginOrdersStorageDroppingSession(storage, k, r) ==
    IF r = "ok" THEN setItem(storage, "orders", OrdersOf(k))
    ELSE IF r = "notOk" THEN removeItem(removeItem(storage, "token"), "user")
    ELSE storage

\* LoginModal.handleSubmit, lines 85..89: what the orders answer leaves in
\* storage
LoginOrdersStorage(storage, k, r) ==
    IF r = "ok" THEN setItem(storage, "orders", OrdersOf(k)) ELSE storage

\* LoginModal.handleSubmit, lines 80..96 and the catch / finally blocks: the
\* answer of GET /api/orders, then onClose() and navigate("/orders")
LoginOrdersResponse(k, r) ==
    /\ k \in 1..Len(logins)
    /\ logins[k].pc = "orders"
    /\ localStorage' = LoginOrdersStorage(localStorage, k, r)
    /\ IF r = "throw"
       THEN /\ logins' = [logins EXCEPT ![k].pc = "done", ![k].ordersResult = r,
                                        ![k].live = FALSE, ![k].error = MsgServerError,
                                        ![k].outcome = "failed"]
            /\ loginError' = IF logins[k].live THEN MsgServerError ELSE loginError
            /\ loginLoading' = IF logins[k].live THEN FALSE ELSE loginLoading
            /\ UNCHANGED <<isLoggedIn, isLoginOpen, loginForm>>
            /\ UNCHANGED <<page, formData, paymentMethod, loading, stripeLoading,
                           attempts>>
            /\ UNCHANGED pageVars
       ELSE LET done == [logins EXCEPT ![k].pc = "done", ![k].ordersResult = r,
                                       ![k].live = FALSE, ![k].outcome = "loggedIn"]
            IN
            IF page = "orders"
            THEN /\ logins' = done
                 /\ isLoginOpen' = IF logins[k].live THEN FALSE ELSE isLoginOpen
                 /\ loginLoading' = IF logins[k].live THEN FALSE ELSE loginLoading
                 /\ UNCHANGED <<isLoggedIn, loginForm, loginError>>
                 /\ UNCHANGED <<page, formData, paymentMethod, loading,
                                stripeLoading, attempts>>
                 /\ UNCHANGED pageVars
            ELSE /\ logins' = LoginUnmounted(done)
                 /\ MountNavbar(localStorage')
                 /\ MountPage("orders", localStorage')
                 /\ page' = "orders"
                 /\ formData' = InitFormData
                 /\ paymentMethod' = ""
                 /\ loading' = FALSE
                 /\ stripeLoading' = FALSE
                 /\ attempts' = Unmounted(attempts)
    /\ UNCHANGED cartVars

FetchResults == {"ok", "notOk", "throw"}

\* OrderHistory.fetchOrders after its await: setOrders, or the alert of the
\* catch block
FetchOrdersResponse(r) ==
    /\ ordersView.pending
    /\ ordersView' = IF r = "ok"
                     THEN [loading |-> FALSE, orders |-> "fetched", alert |-> "",
                           pending |-> FALSE]
                     ELSE [loading |-> FALSE, orders |-> "empty",
                           alert |-> MsgFetchOrdersErr, pending |-> FALSE]
    /\ UNCHANGED contactStatus
    /\ UNCHANGED sessionVars
    /\ UNCHANGED checkoutVars
    /\ UNCHANGED cartVars

MsgContactOk == "Your query has been submitted successfully."
MsgContactErr == "Something went wrong. Please try again later."

\* ContactPage.handleSubmit up to its await (button disabled={status.loading})
ContactSubmit ==
    /\ page = "contact"
    /\ ~contactStatus.loading
    /\ contactStatus' = [loading |-> TRUE, message |-> "", error |-> FALSE]
    /\ UNCHANGED ordersView
    /\ UNCHANGED sessionVars
    /\ UNCHANGED checkoutVars
    /\ UNCHANGED cartVars

\* ContactPage.handleSubmit after its await
ContactResponse(r) ==
    /\ contactStatus.loading
    /\ contactStatus' = IF r = "ok"
                        THEN [loading |-> FALSE, message |-> MsgContactOk,
                              error |-> FALSE]
                        ELSE [loading |-> FALSE, message |-> MsgContactErr,
                              error |-> TRUE]
    /\ UNCHANGED ordersView
    /\ UNCHANGED sessionVars
    /\ UNCHANGED checkoutVars
    /\ UNCHANGED cartVars

NextSession ==
    \/ \E p \in {"shop", "orders", "contact"} : NavigateTo(p)
    \/ \E r \in FetchResults : FetchOrdersResponse(r)
    \/ ContactSubmit
    \/ \E r \in FetchResults : ContactResponse(r)
    \/ OpenLogin
    \/ CloseLogin
    \/ \E f \in {"email", "password"} : \E v \in {"", "x"} : handleChange(f, v)
    \/ LoginHandleSubmit
    \/ \E k \in 1..MaxLogins : \E r \in LoginResults : LoginResponse(k, r)
    \/ \E k \in 1..MaxLogins : \E r \in LoginOrdersResults : LoginOrdersResponse(k, r)
    \/ handleLogout

SpecSession == Init /\ [][NextSession]_vars

Next == NextCart \/ NextCheckout \/ NextSession

Spec == Init /\ [][Next]_vars

\* ------------------------------------------------------------------
\* Properties of the checkout sequence
\* ------------------------------------------------------------------
CardPipeline == <<"create-payment-intent", "confirmCardPayment", "orders">>

HasOrderCall(a) == \E i \in 1..Len(a.calls) : a.calls[i].api = "orders"

\* C1: in every card attempt the external calls are a prefix of payment
\* intent, card confirmation, order creation; the order call exists only once
\* the confirmation has answered "succeeded" with an id, and carries that id
\* as paymentId; a confirmation error, or a missing client secret, leaves the
\* attempt without an order call.
C1_CardCallOrder ==
    \A k \in 1..Len(attempts) :
        LET a == attempts[k] IN
        a.kind = "card" =>
            /\ Len(a.calls) <= 3
            /\ \A i \in 1..Len(a.calls) : a.calls[i].api = CardPipeline[i]
            /\ HasOrderCall(a) =>
                  /\ a.confirmResult = "succeeded"
                  /\ a.paymentId # Null
                  /\ a.calls[3].paymentId = a.paymentId
            /\ a.confirmResult \in {"error", "throw", "otherStatus", "succeededNoId"}
                  => ~HasOrderCall(a)
            /\ a.intentResult \in {"noClientSecret", "throw"} => Len(a.calls) = 1

C1_Witness ==
    \E k \in 1..Len(attempts) :
        /\ attempts[k].kind = "card"
        /\ attempts[k].pc = "done"
        /\ Len(attempts[k].calls) = 3
        /\ attempts[k].orderResult = "ok"

\* C2: an attempt that fails validation has made no network call, whichever
\* payment method it uses.
C2_NoCallOnValidationFailure ==
    \A k \in 1..Len(attempts) :
        attempts[k].validated \in ValidationMsgs => attempts[k].calls = <<>>

\* What createOrder reads when it runs for attempt k in this step: the render
\* it was created in, and the storage as it is now
CreateOrderRuns(k) ==
    /\ k \in 1..Len(attempts')
    /\ attempts'[k].validated # "none"
    /\ k \in 1..Len(attempts) => attempts[k].validated = "none"

ReadBy(k) ==
    IF k \in 1..Len(attempts) THEN attempts[k].snap
    ELSE Snap(formData, cart, paymentMethod)

CallsBefore(k) == IF k \in 1..Len(attempts) THEN attempts[k].calls ELSE <<>>

Invalid(token, snap) ==
    \/ token = Null
    \/ \E f \in {"firstName", "address", "city"} : snap.formData[f] = ""
    \/ snap.cartItems = <<>>

\* C3: when createOrder runs and reads no stored token, an empty firstName,
\* address or city, or an empty cart, it issues no order call, surfaces a
\* validation alert, leaves the loading flag as it is and the attempt is over
\* with an error (the sequencer is back in Idle).
C3_ValidationRejects ==
    [][\A k \in 1..(Len(attempts) + 1) :
          (CreateOrderRuns(k) /\ Invalid(localStorage.token, ReadBy(k))) =>
              /\ attempts'[k].calls = CallsBefore(k)
              /\ ~HasOrderCall(attempts'[k])
              /\ \E i \in 1..Len(attempts'[k].alerts) :
                    attempts'[k].alerts[i] \in ValidationMsgs
              /\ loading' = loading
              /\ attempts'[k].pc = "done"
              /\ attempts'[k].outcome = "error"]_vars

C3_Witness ==
    \E k \in 1..Len(attempts) :
        /\ attempts[k].validated = MsgEmpty
        /\ ~loading

OrderFailed(a) ==
    a.pc = "done" /\ a.orderResult \in {"httpError", "throw", "ok_success_false"}

\* C4: an attempt whose card charge succeeded and whose order call failed is
\* over in the error state, with no order recorded, with exactly the three
\* calls of the pipeline (no refund, cancel or retry) and with its payment id
\* in no other attempt's order call.
C4_ChargedWithoutOrder ==
    \A k \in 1..Len(attempts) :
        LET a == attempts[k] IN
        (a.paid /\ OrderFailed(a)) =>
            /\ a.outcome = "error"
            /\ ~a.orderRecorded
            /\ Len(a.calls) = 3
            /\ \A j \in 1..Len(attempts) : \A i \in 1..Len(attempts[j].calls) :
                  (j # k /\ attempts[j].calls[i].api = "orders")
                      => attempts[j].calls[i].paymentId # a.paymentId

\* ------------------------------------------------------------------
\* Properties of the cart
\* ------------------------------------------------------------------
\* C5: the cart holds at most one line per catalog item identifier.
C5_OneLinePerItem ==
    \A i, j \in 1..Len(cart) :
        i # j => ItemIdOf(cart[i]) # ItemIdOf(cart[j])

\* C6: every cart line has an integer quantity of at least 1.
C6_QuantityAtLeastOne ==
    \A i \in 1..Len(cart) : cart[i].quantity \in Nat /\ cart[i].quantity >= 1

C6_Witness ==
    /\ lastOp.type = "decreaseQuantity"
    /\ Len(cart) < Len(lastOp.before)
    /\ Len(cart) >= 1

\* C7: N calls of add(X), starting from a cart without X, leave exactly one
\* line for X, with quantity N.
C7_AddNTimes ==
    addRun.n > 0 =>
        /\ Cardinality(LinesFor(cart, addRun.x)) = 1
        /\ \A i \in LinesFor(cart, addRun.x) : cart[i].quantity = addRun.n

\* C8: adding an item shown in the menu to a cart with no line for its
\* identifier appends a line for it, with the item's name, price and image
\* and quantity 1, and leaves the other lines as they were.
C8_AddInsertsLine ==
    (/\ lastOp.type = "addToCart"
     /\ lastOp.view = "menu"
     /\ LinesFor(lastOp.before, ItemIdOf(lastOp.payload)) = {}) =>
        /\ Len(cart) = Len(lastOp.before) + 1
        /\ SubSeq(cart, 1, Len(lastOp.before)) = lastOp.before
        /\ ItemIdOf(cart[Len(cart)]) = ItemIdOf(lastOp.payload)
        /\ cart[Len(cart)].name = lastOp.payload.name
        /\ cart[Len(cart)].price = lastOp.payload.price
        /\ cart[Len(cart)].image = lastOp.payload.image
        /\ cart[Len(cart)].quantity = 1

Without(c, x) == SelectSeq(c, LAMBDA l : ItemIdOf(l) # x)

\* C9: decrement(itemId) takes 1 off the quantity of the line with that id
\* when it is above 1, removes the line when it is 1, changes no other line,
\* and changes nothing when no line has that id.
C9_Decrement ==
    lastOp.type = "decreaseQuantity" =>
        LET b == lastOp.before
            L == LinesFor(b, lastOp.itemId)
        IN IF L = {} THEN cart = b
           ELSE \A i \in L :
                   IF b[i].quantity > 1
                   THEN cart = [b EXCEPT ![i].quantity = b[i].quantity - 1]
                   ELSE cart = Without(b, lastOp.itemId)

\* C10: remove(itemId) deletes the line with that id, whatever its quantity,
\* leaves every other line as it was, and changes nothing when no line has
\* that id.
C10_Remove ==
    lastOp.type = "removeFromCart" =>
        cart = Without(lastOp.before, lastOp.itemId)

\* The sum over the lines of price x quantity, in cents; not a number when a
\* line carries no price
SumOfLines(c) ==
    LET S[n \in 0..Len(c)] ==
            IF n = 0 THEN 0 ELSE S[n - 1] + c[n].price * c[n].quantity
    IN IF \E i \in 1..Len(c) : c[i].price = NaN THEN NaN ELSE S[Len(c)]

\* C11: in every cart state the total the cart page reads and the subtotal
\* the checkout page reads both equal the sum over the current lines of
\* price x quantity; lines (10.00, 2) and (5.50, 3) give 36.50.
C11_TotalIsSumOfLines ==
    /\ total(cart) = SumOfLines(cart)
    /\ subtotal(cart) = SumOfLines(cart)
    /\ (/\ Len(cart) = 2
        /\ cart[1].price = 1000 /\ cart[1].quantity = 2
        /\ cart[2].price = 550 /\ cart[2].quantity = 3)
          => total(cart) = 3650 /\ subtotal(cart) = 3650

C11_Witness ==
    /\ Len(cart) = 2
    /\ cart[1].price = 1000 /\ cart[1].quantity = 2
    /\ cart[2].price = 550 /\ cart[2].quantity = 3
    /\ total(cart) = 3650
    /\ lastOp.type = "decreaseQuantity"

\* A press of the "Complete Order" control in this step
CashPress ==
    /\ Len(attempts') = Len(attempts) + 1
    /\ attempts'[Len(attempts')].kind = "cod"

CashReady ==
    /\ cart # <<>>
    /\ localStorage.token # Null
    /\ \A f \in {"firstName", "address", "city"} : formData[f] # ""
    /\ paymentMethod = "cod"

\* C12: with a non-empty cart, a stored token, firstName, address and city
\* filled and cash on delivery selected, a press of the submit control issues
\* the order-creation call once, with paymentId null and no payment-intent or
\* confirmation call; when that call is answered with success the attempt is
\* Complete with the success alert, its calls are still that one call, and
\* the loading flag of the page that started it is false.
C12_CashHappyPath ==
    [][/\ (CashPress /\ CashReady) =>
            LET a == attempts'[Len(attempts')] IN
            /\ a.pc = "order"
            /\ a.calls = <<OrderCall(localStorage.token,
                                     Snap(formData, cart, paymentMethod), Null)>>
            /\ a.calls[1].paymentId = Null
            /\ loading'
       /\ \A k \in 1..Len(attempts) :
            (/\ attempts[k].kind = "cod"
             /\ attempts[k].pc = "order"
             /\ attempts'[k].orderResult = "ok") =>
                /\ attempts'[k].calls = attempts[k].calls
                /\ Len(attempts'[k].calls) = 1
                /\ attempts'[k].calls[1].api = "orders"
                /\ attempts'[k].outcome = "complete"
                /\ attempts'[k].orderRecorded
                /\ attempts'[k].alerts = <<MsgOrderOk>>
                /\ attempts[k].live => ~loading']_vars

C12_Witness ==
    \E k \in 1..Len(attempts) :
        /\ attempts[k].kind = "cod"
        /\ attempts[k].outcome = "complete"
        /\ attempts[k].orderResult = "ok"
        /\ Len(attempts[k].calls) = 1
        /\ page = "checkout"
        /\ ~loading

HasAlert(a, msg) == \E i \in 1..Len(a.alerts) : a.alerts[i] = msg

\* C13: an order-creation response with a non-success HTTP status, or with a
\* success status and `success: false` in its body, ends the attempt in the
\* error state with the failure message surfaced, without the success alert
\* and without Complete.
C13_OrderFailureSurfaced ==
    \A k \in 1..Len(attempts) :
        LET a == attempts[k] IN
        a.orderResult \in {"httpError", "ok_success_false"} =>
            /\ a.outcome = "error"
            /\ HasAlert(a, MsgOrderErr)
            /\ ~HasAlert(a, MsgOrderOk)

\* The cart lines an attempt sent in its order-creation call
OrderItems(a) ==
    LET i == CHOOSE i \in 1..Len(a.calls) : a.calls[i].api = "orders"
    IN a.calls[i].items

\* Attempt k issues its order-creation call in this step
IssuesOrderCall(k) ==
    /\ k \in 1..Len(attempts')
    /\ HasOrderCall(attempts'[k])
    /\ k \in 1..Len(attempts) => ~HasOrderCall(attempts[k])

\* C14: once an order-creation call has succeeded for the cart's contents,
\* no attempt issues another order-creation call for those same contents.
C14_CompleteIsTerminal ==
    [][\A k \in 1..(Len(attempts) + 1) :
          IssuesOrderCall(k) =>
              \A j \in 1..Len(attempts) :
                  (j # k /\ attempts[j].orderRecorded)
                      => OrderItems(attempts[j]) # OrderItems(attempts'[k])]_vars

Apis == {"create-payment-intent", "confirmCardPayment", "orders"}

CallsTo(a, api) == { i \in 1..Len(a.calls) : a.calls[i].api = api }

IsPrefix(s, t) == Len(s) <= Len(t) /\ SubSeq(t, 1, Len(s)) = s

\* C15: an attempt (one press of the submit or pay control) issues at most
\* one payment-intent call, one card confirmation and one order-creation
\* call, a cash attempt none of the first two; a step appends at most one
\* call to an attempt, and an attempt that is over, failed or not, issues no
\* call again.
C15_AtMostOncePerAttempt ==
    [][/\ \A k \in 1..Len(attempts') :
            /\ \A api \in Apis : Cardinality(CallsTo(attempts'[k], api)) <= 1
            /\ attempts'[k].kind = "cod" =>
                  \A i \in 1..Len(attempts'[k].calls) :
                      attempts'[k].calls[i].api = "orders"
       /\ \A k \in 1..Len(attempts) :
            /\ IsPrefix(attempts[k].calls, attempts'[k].calls)
            /\ Len(attempts'[k].calls) <= Len(attempts[k].calls) + 1
            /\ attempts[k].pc = "done" => attempts'[k] = attempts[k]
            /\ attempts'[k].outcome = "error" => attempts'[k].pc = "done"]_vars

C15_Witness ==
    \E k \in 1..Len(attempts) :
        /\ attempts[k].kind = "card"
        /\ attempts[k].pc = "done"
        /\ attempts[k].orderResult = "throw"
        /\ Len(attempts[k].calls) = 3
        /\ Len(attempts) = MaxAttempts

OrderCallsOf(a) == { a.calls[i] : i \in CallsTo(a, "orders") }

IsRounded(n, x) == n * 100 <= x + 50 /\ x + 50 < n * 100 + 100

AskedQuantity == IF lastOp.view = "quantity" THEN lastOp.payload.quantity ELSE 1

\* C18: add(item, k) raises the quantity of the item's line by k, or appends
\* a line of quantity k when the cart has none; without a quantity, by 1.
C18_AddWithQuantity ==
    (lastOp.type = "addToCart" /\ lastOp.view \in {"quantity", "none"}) =>
        LET b == lastOp.before
            i == FindIndex(b, lastOp.itemId)
        IN IF i # 0
           THEN cart = [b EXCEPT ![i].quantity = b[i].quantity + AskedQuantity]
           ELSE /\ Len(cart) = Len(b) + 1
                /\ SubSeq(cart, 1, Len(b)) = b
                /\ cart[Len(cart)]._id = lastOp.itemId
                /\ cart[Len(cart)].quantity = AskedQuantity

\* ------------------------------------------------------------------
\* Properties of the session
\* ------------------------------------------------------------------
\* isAuthenticated(): a credential token is stored
IsAuthenticated(storage) == storage.token # Null

\* C19: a step in which the Logout control ran (isLoggedIn turns false)
\* leaves no token, no user profile and no cached order list in the storage,
\* whatever the storage held before, and leaves isAuthenticated false.
C19_LogoutClearsSession ==
    [][(isLoggedIn /\ ~isLoggedIn') =>
          /\ localStorage'.token = Null
          /\ localStorage'.user = Null
          /\ localStorage'.orders = Null
          /\ ~IsAuthenticated(localStorage')]_vars

C19_Witness ==
    /\ localStorage = InitStorage
    /\ ~isLoggedIn
    /\ \E k \in 1..Len(logins) :
          logins[k].outcome = "loggedIn" /\ logins[k].ordersResult = "ok"
    /\ \A k \in 1..Len(logins) : logins[k].pc = "done"

\* Submission k gets the answer of the login request in this step
LoginAnswered(k) ==
    /\ k \in 1..Len(logins)
    /\ logins[k].pc = "login"
    /\ logins'[k].pc # "login"

\* C20: the step that answers a login request with success stores that
\* answer's token and profile and leaves the session authenticated; the step
\* that answers it with a non-OK status or a transport failure, and a
\* submission blocked by the empty-field check, leave token, profile and
\* order cache as they were; and a token or profile enters the storage in no
\* other step.
C20_LoginStoresOnSuccessOnly ==
    [][/\ \A k \in 1..Len(logins) :
            LoginAnswered(k) =>
                IF logins'[k].loginResult = "ok"
                THEN /\ localStorage'.token = TokenOf(k)
                     /\ localStorage'.user = ProfileOf(k)
                     /\ localStorage'.orders = localStorage.orders
                     /\ IsAuthenticated(localStorage')
                ELSE /\ logins'[k].loginResult \in {"rejected", "throw"}
                     /\ localStorage' = localStorage
       /\ (/\ Len(logins') = Len(logins) + 1
           /\ logins'[Len(logins')].outcome = "blocked") =>
                /\ localStorage' = localStorage
                /\ logins'[Len(logins')].pc = "done"
       /\ (\/ localStorage'.token \notin {localStorage.token, Null}
           \/ localStorage'.user \notin {localStorage.user, Null}) =>
                \E k \in 1..Len(logins) :
                    LoginAnswered(k) /\ logins'[k].loginResult = "ok"]_vars

C20_Witness ==
    \E j, k \in 1..Len(logins) :
        /\ logins[j].outcome = "loggedIn"
        /\ logins[k].outcome = "rejected"
        /\ j < k
        /\ localStorage.token = TokenOf(j)
        /\ localStorage.user = ProfileOf(j)

\* C21: the navigation bar's isLoggedIn equals the presence of the stored
\* credential token.
C21_IsLoggedInIsTokenPresence ==
    isLoggedIn = IsAuthenticated(localStorage)

\* A login request is answered with success in this step
LoginSucceeds ==
    \E k \in 1..Len(logins) : LoginAnswered(k) /\ logins'[k].loginResult = "ok"

\* The Logout control runs in this step
LogoutRuns == isLoggedIn /\ ~isLoggedIn'

CatalogPayloads ==
    { MapSeq(NormalizeOffer, resp) : resp \in MenuResponses }
        \cup { MapSeq(FormatMenuItem, resp) : resp \in MenuResponses }

\* C23: setProducts(items) leaves the catalog store holding exactly items,
\* whatever it held before: after setProducts([]) and setProducts([A, B])
\* it holds A and B and nothing else; a step that changes the catalog store
\* leaves it equal to the dispatched list and leaves the cart as it was.
C23_ReplaceAll ==
    [][/\ \A items \in CatalogPayloads :
            /\ setProducts(products, items) = items
            /\ setProducts(setProducts(products, <<>>), items) = items
       /\ products' # products =>
            /\ products' \in CatalogPayloads
            /\ cart' = cart]_vars

C23_Witness ==
    /\ products = MapSeq(FormatMenuItem, <<ServerItem("a"), ServerItem("b")>>)
    /\ Len(cart) = 1
    /\ cart[1]._id = "a"

\* toUpperCase leaves a normalized category as it is
IsUpperCase(s) == ToUpperCase(s) = s

\* C24: every item held in the catalog store carries a unique identifier
\* in `_id`, the field the cart reducers key on, and an uppercase category,
\* whichever of the two home-page fetches dispatched last.
C24_CatalogItemShape ==
    /\ \A i \in 1..Len(products) :
            /\ products[i]._id # Undefined
            /\ IsUpperCase(products[i].category)
    /\ \A i, j \in 1..Len(products) :
            products[i]._id = products[j]._id => i = j

\* The cart b without its line i
DropLine(b, i) == SubSeq(b, 1, i - 1) \o SubSeq(b, i + 1, Len(b))

\* C25: on the cart page the minus control of a line takes 1 off that line's
\* quantity (removing the line at quantity 1), its plus control adds 1 to
\* that same line without creating another line, and its REMOVE control
\* deletes that line; no other line changes.
C25_CartPageControls ==
    lastOp.view = "cart" =>
        LET b == lastOp.before
            key == IF lastOp.type = "addToCart" THEN lastOp.payload.id
                   ELSE lastOp.itemId
        IN \E i \in 1..Len(b) :
              /\ b[i].id = key
              /\ cart = CASE lastOp.type = "addToCart" ->
                              [b EXCEPT ![i].quantity = b[i].quantity + 1]
                         [] lastOp.type = "decreaseQuantity" ->
                              IF b[i].quantity > 1
                              THEN [b EXCEPT ![i].quantity = b[i].quantity - 1]
                              ELSE DropLine(b, i)
                         [] OTHER -> DropLine(b, i)

\* An alert telling the user that the order was created
OrderSuccessAlerts == {MsgOrderOk, MsgPaidAndOrdered}

HasOrderSuccessAlert(a) ==
    \E i \in 1..Len(a.alerts) : a.alerts[i] \in OrderSuccessAlerts

\* C26: an attempt shows an order-success alert only if its order-creation
\* call was answered with a success status; an attempt whose createOrder was
\* rejected by validation, threw in transport or was answered with an error
\* status ends with an error alert and with no order-success alert, on the
\* card path after a successful charge too.
C26_SuccessOnlyAfterOrder ==
    \A k \in 1..Len(attempts) :
        LET a == attempts[k] IN
        a.pc = "done" =>
            /\ HasOrderSuccessAlert(a) =>
                    a.orderResult \in {"ok", "ok_success_false"}
            /\ (\/ a.validated \in ValidationMsgs
                \/ a.orderResult \in {"httpError", "throw"}) =>
                    /\ a.outcome = "error"
                    /\ \E i \in 1..Len(a.alerts) :
                          a.alerts[i] \in ValidationMsgs \cup {MsgOrderErr}
                    /\ ~HasOrderSuccessAlert(a)

\* A request of attempt a is awaiting its answer
Pending(a) == a.pc \in {"intent", "confirm", "order"}

\* This step starts an attempt that issues a payment-intent or an
\* order-creation request
StartsRequest ==
    /\ Len(attempts') = Len(attempts) + 1
    /\ Pending(attempts'[Len(attempts')])

\* C27: while a payment-intent, card confirmation or order-creation request
\* started on the mounted checkout page is pending, no press of the submit
\* or pay control, with or without a change of payment method in between,
\* starts another payment-intent or order-creation request; one of the
\* loading flags is set as long as such a request is pending.
C27_OneCheckoutInFlight ==
    [][/\ StartsRequest =>
            \A k \in 1..Len(attempts) :
                ~(attempts[k].live /\ Pending(attempts[k]))
       /\ \A k \in 1..Len(attempts) :
            (attempts[k].live /\ Pending(attempts[k])) =>
                (loading \/ stripeLoading)]_vars

\* This step ends an attempt with a validation alert of handleSubmit or of
\* createOrder
ValidationRejects ==
    \E k \in 1..Len(attempts') :
        /\ attempts'[k].pc = "done"
        /\ k \in 1..Len(attempts) => attempts[k].pc # "done"
        /\ \E i \in 1..Len(attempts'[k].alerts) :
              attempts'[k].alerts[i] \in ValidationMsgs \cup {MsgNoMethod, MsgUseStripe}

\* C28: every attempt with a pending request, once its requests are
\* answered or fail, is over in the error or the complete state with both
\* loading flags false (both controls enabled); Checkout's loading flag is
\* set only while an order request of the mounted page is pending,
\* CheckoutForm's only while an intent or confirmation request of the
\* mounted form is pending; a step that rejects an attempt in validation
\* sets neither flag.
C28_ReturnsToIdle ==
    /\ \A k \in 1..MaxAttempts :
          (k <= Len(attempts) /\ Pending(attempts[k]))
              ~> (/\ k <= Len(attempts)
                  /\ attempts[k].pc = "done"
                  /\ attempts[k].outcome \in {"error", "complete"}
                  /\ ~loading
                  /\ ~stripeLoading)
    /\ [](loading =>
            \E k \in 1..Len(attempts) :
                attempts[k].live /\ attempts[k].pc = "order")
    /\ [](stripeLoading =>
            \E k \in 1..Len(attempts) :
                attempts[k].stripeLive /\ attempts[k].pc \in {"intent", "confirm"})
    /\ [][ValidationRejects =>
            /\ loading' => loading
            /\ stripeLoading' => stripeLoading]_vars

C28_Witness ==
    /\ Len(attempts) = 2
    /\ attempts[1].orderResult = "throw"
    /\ attempts[1].outcome = "error"
    /\ attempts[2].outcome = "complete"
    /\ attempts[2].orderResult = "ok"
    /\ ~loading
    /\ ~stripeLoading

\* ------------------------------------------------------------------
\* Properties of a login attempt
\* ------------------------------------------------------------------
\* C29: a login attempt that ended with an error shown in the modal has
\* left neither its token nor its profile in the storage; the token of a
\* finished attempt is in the storage only if that attempt ended by closing
\* the modal and navigating to the orders page.
C29_LoginAtomic ==
    \A k \in 1..Len(logins) :
        logins[k].pc = "done" =>
            /\ logins[k].error # "" =>
                    /\ localStorage.token # TokenOf(k)
                    /\ localStorage.user # ProfileOf(k)
            /\ localStorage.token = TokenOf(k) => logins[k].outcome = "loggedIn"

\* C30: the storage holds a cached order list or a profile only while it
\* holds a token, a logout during a login's orders fetch included.
C30_SessionDataNeedsToken ==
    localStorage.token = Null =>
        /\ localStorage.orders = Null
        /\ localStorage.user = Null

====
